---- MODULE Spec2Model ----
(***************************************************************************)
(* Model of the fetch -> transcribe -> persist -> notify pipeline of       *)
(* app/services.py (TranscriberService) and of its two callers in          *)
(* app/routes.py: the synchronous batch endpoint (fetch_and_transcribe)    *)
(* and the asynchronous endpoint (async_process + process_in_background).  *)
(*                                                                         *)
(* Every request is a process p in Procs.  A process takes one step per    *)
(* call to an external collaborator (datastore, object storage, ASR,       *)
(* queue), so that calls of concurrent requests interleave at exactly the  *)
(* places where the code can be overtaken by another writer.  The outcome  *)
(* of an external call (success, exception, ambiguous acknowledgment) is   *)
(* chosen nondeterministically.                                            *)
(***************************************************************************)
EXTENDS Integers, Sequences, FiniteSets, TLC

None == "None"                       \* Python's None

Procs == {"p1", "p2"}                \* concurrent requests
MaxFiles == 2                        \* longest file_paths list of a request

max_retries == 3                     \* services.py:258

DeviceIds == {"d1", "d2"}
RecordedAts == {"t1", "t2"}
FilePaths == {"a.wav", "b.wav", "x.wav"}

\* The audio_files table (metadata catalog), in table order.  "x.wav" has
\* no row.  No code of the repository writes this table.
AudioFiles ==
  << [file_path |-> "a.wav", device_id |-> "d1", recorded_at |-> "t1",
      local_date |-> "2024-01-01", local_time |-> "09:00", time_block |-> "09-00"],
     [file_path |-> "b.wav", device_id |-> "d1", recorded_at |-> "t2",
      local_date |-> "2024-01-01", local_time |-> "10:00", time_block |-> "10-00"] >>

\* Texts are sequences of characters.  Transcriptions: what the ASR
\* capability returns in transcription_result["transcription"].
Transcriptions == {<<>>, <<" ">>, <<"h", "i">>, <<" ", "h", "i", " ">>}

\* The literal stored when the transcription is empty (services.py:226),
\* written in Latin letters.
NoSpeech == <<"h", "a", "t", "s", "u", "w", "a", "n", "a", "s", "h", "i">>

\* A text column that is NULL / a text variable that is None.
NoText == <<None>>

RECURSIVE LStrip(_)
LStrip(s) == IF s # <<>> /\ Head(s) = " " THEN LStrip(Tail(s)) ELSE s

RECURSIVE RStrip(_)
RStrip(s) ==
  IF s # <<>> /\ s[Len(s)] = " " THEN RStrip(SubSeq(s, 1, Len(s) - 1)) ELSE s

\* str.strip()
Strip(s) == RStrip(LStrip(s))

(***************************************************************************)
(* Sequences helpers                                                       *)
(***************************************************************************)
Range(s) == {s[i] : i \in 1..Len(s)}

Count(s, x) == Cardinality({i \in 1..Len(s) : s[i] = x})

SeqsUpTo(S, n) == UNION {[1..k -> S] : k \in 0..n}

(***************************************************************************)
(* The spot_features table: a set of rows.  (device_id, recorded_at) is    *)
(* its primary key, which the datastore enforces on insert and uses as the *)
(* conflict target of upsert.                                              *)
(***************************************************************************)
RowsAt(table, device_id, recorded_at) ==
  {row \in table : row.device_id = device_id /\ row.recorded_at = recorded_at}

\* Upsert that leaves an existing row as it is (ignore_duplicates)
Upsert_ignoresDuplicates(table, data) ==
  IF RowsAt(table, data.device_id, data.recorded_at) # {}
  THEN table
  ELSE table \cup {[device_id |-> data.device_id,
                    recorded_at |-> data.recorded_at,
                    local_date |-> data.local_date,
                    local_time |-> data.local_time,
                    vibe_transcriber_result |-> data.vibe_transcriber_result,
                    vibe_status |-> None,
                    behavior_status |-> None,
                    emotion_status |-> None]}

\* Upsert that replaces an existing row by the record, its other columns
\* back to their defaults
Upsert_replacesRow(table, data) ==
  (table \ RowsAt(table, data.device_id, data.recorded_at)) \cup
    {[device_id |-> data.device_id,
      recorded_at |-> data.recorded_at,
      local_date |-> data.local_date,
      local_time |-> data.local_time,
      vibe_transcriber_result |-> data.vibe_transcriber_result,
      vibe_status |-> None,
      behavior_status |-> None,
      emotion_status |-> None]}

\* .upsert(data).execute() applied by the datastore: an existing row keeps
\* the columns data does not name, otherwise a new row is inserted.
Upsert(table, data) ==
  LET old == RowsAt(table, data.device_id, data.recorded_at) IN
  IF old # {}
  THEN (table \ old) \cup
       {[row EXCEPT !.local_date = data.local_date,
                    !.local_time = data.local_time,
                    !.vibe_transcriber_result = data.vibe_transcriber_result]
          : row \in old}
  ELSE table \cup {[device_id |-> data.device_id,
                    recorded_at |-> data.recorded_at,
                    local_date |-> data.local_date,
                    local_time |-> data.local_time,
                    vibe_transcriber_result |-> data.vibe_transcriber_result,
                    vibe_status |-> None,
                    behavior_status |-> None,
                    emotion_status |-> None]}

\* .update({status_field: status_value}).eq(...).eq(...).execute()
Update(table, device_id, recorded_at, status_value) ==
  {IF row.device_id = device_id /\ row.recorded_at = recorded_at
   THEN [row EXCEPT !.vibe_status = status_value] ELSE row : row \in table}

\* Insert of a row that lacks the status column
Insert_withoutStatus(table, device_id, recorded_at, status_value) ==
  table \cup {[device_id |-> device_id, recorded_at |-> recorded_at,
               local_date |-> None, local_time |-> None,
               vibe_transcriber_result |-> NoText,
               vibe_status |-> None,
               behavior_status |-> None,
               emotion_status |-> None]}

\* .insert(insert_data).execute() of update_status
Insert(table, device_id, recorded_at, status_value) ==
  table \cup {[device_id |-> device_id, recorded_at |-> recorded_at,
               local_date |-> None, local_time |-> None,
               vibe_transcriber_result |-> NoText,
               vibe_status |-> status_value,
               behavior_status |-> None,
               emotion_status |-> None]}

(***************************************************************************)
(* Work item resolution (services.py:58-178)                               *)
(***************************************************************************)
CatalogByPath(file_path) ==
  {i \in 1..Len(AudioFiles) : AudioFiles[i].file_path = file_path}

\* The rows of audio_files that the ByDevice query returns.
QueryAudioFiles(req) ==
  SelectSeq(AudioFiles,
            LAMBDA row : /\ row.device_id = req.device_id
                         /\ row.local_date = req.local_date
                         /\ (req.time_blocks # <<>> =>
                               row.time_block \in Range(req.time_blocks)))

WorkItem(row) ==
  [file_path |-> row.file_path, device_id |-> row.device_id,
   recorded_at |-> row.recorded_at]

RECURSIVE ResolveFrom(_, _, _)
\* Lookup of each file_path from position i on; the lookups at the
\* positions in failing raise.  .single() raises as well unless exactly
\* one row matches.
ResolveFrom(file_paths, i, failing) ==
  IF i > Len(file_paths) THEN <<>>
  ELSE LET hits == CatalogByPath(file_paths[i])
           rest == ResolveFrom(file_paths, i + 1, failing)
       IN IF i \notin failing /\ Cardinality(hits) = 1
          THEN <<[file_path |-> file_paths[i],
                  device_id |-> AudioFiles[CHOOSE h \in hits : TRUE].device_id,
                  recorded_at |-> AudioFiles[CHOOSE h \in hits : TRUE].recorded_at]>>
               \o rest
          ELSE rest

RECURSIVE PathsOf(_)
PathsOf(items) ==
  IF items = <<>> THEN <<>> ELSE <<Head(items).file_path>> \o PathsOf(Tail(items))

\* The dict fetch_and_transcribe_files returns (the fields the callers and
\* the claims use).
\* Summary whose total_files is the number of resolved work items
Summary_countsResolved(total, succ, err) ==
  [total_files |-> Len(succ) + Len(err),
   pending_processed |-> Len(succ),
   errors |-> Len(err),
   processed_files |-> [i \in 1..Len(succ) |-> succ[i].file_path],
   error_files |-> [i \in 1..Len(err) |-> err[i].file_path],
   error_files_is_null |-> (err = <<>>)]

Summary(total, succ, err) ==
  [total_files |-> total,
   pending_processed |-> Len(succ),
   errors |-> Len(err),
   processed_files |-> PathsOf(succ),
   error_files |-> PathsOf(err),
   error_files_is_null |-> (err = <<>>)]

NoResult == Summary(-1, <<>>, <<>>)

(***************************************************************************)
(* Requests                                                                *)
(***************************************************************************)
ExplicitRequests ==
  {[device_id |-> None, local_date |-> None, time_blocks |-> <<>>,
    file_paths |-> fp, model |-> m]
     : fp \in SeqsUpTo(FilePaths, MaxFiles) \ {<<>>}, m \in {"groq"}}

ByDeviceRequests ==
  {[device_id |-> d, local_date |-> "2024-01-01", time_blocks |-> tb,
    file_paths |-> <<>>, model |-> "groq"]
     : d \in DeviceIds, tb \in {<<>>, <<"09-00">>}}

NeitherRequests ==
  {[device_id |-> None, local_date |-> None, time_blocks |-> <<>>,
    file_paths |-> <<>>, model |-> m] : m \in {"groq", "whisper"}}

Requests == ExplicitRequests \cup ByDeviceRequests \cup NeitherRequests

NoRequest ==
  [device_id |-> None, local_date |-> None, time_blocks |-> <<>>,
   file_paths |-> <<>>, model |-> None]

NoArgs == [file_path |-> None, device_id |-> None, recorded_at |-> None]

NoData == [device_id |-> None, recorded_at |-> None, local_date |-> None,
           local_time |-> None, vibe_transcriber_result |-> NoText]

(***************************************************************************)
(* Classification of the ASR result, services.py:208-226.  text and        *)
(* no_speech_detected are transcription_result["transcription"] and        *)
(* .get("no_speech_detected", False); jst_hour is current_jst.hour.        *)
(***************************************************************************)
JstHours == 0..23

\* Classification that stores the empty transcription as it is
Classify_keepsEmpty(text, no_speech_detected, jst_hour) ==
  LET transcription == Strip(text) IN
  [final_transcription |-> transcription,
   is_quota_exceeded |-> (transcription = <<>> /\ ~no_speech_detected
                            /\ jst_hour < 9)]

Classify(text, no_speech_detected, jst_hour) ==
  LET transcription == Strip(text) IN
  [final_transcription |-> IF transcription # <<>> THEN transcription
                                                   ELSE NoSpeech,
   is_quota_exceeded |-> (transcription = <<>> /\ ~no_speech_detected
                            /\ jst_hour < 9)]

NoClassification ==
  [text |-> NoText, no_speech_detected |-> FALSE, jst_hour |-> 0,
   final_transcription |-> NoText, is_quota_exceeded |-> FALSE, done |-> FALSE]

(***************************************************************************)
(* State                                                                   *)
(***************************************************************************)
VARIABLES
  pc,                      \* position of each request
  kind,                    \* "async" (async_process) or "batch" (fetch_and_transcribe)
  args,                    \* file_path, device_id, recorded_at of an async request
  request,                 \* the FetchAndTranscribeRequest given to the service
  file_paths,              \* local file_paths of fetch_and_transcribe_files
  files_to_process,        \* resolved work items
  idx,                     \* position of the for loop over files_to_process
  final_transcription,     \* text to store for the current item
  data,                    \* record submitted to upsert for the current item
  retry_count,             \* retry_count of the upsert loop
  successfully_transcribed,
  error_files,
  scratch,                 \* positions of the items whose temporary file exists
  result,                  \* dict returned by fetch_and_transcribe_files
  response,                \* HTTP status of the batch endpoint (0: none yet)
  status_value,            \* status the current update_status call writes
  acked,                   \* async_process has returned its 202
  published,               \* messages sent to the feature-completed queue
  spot_features,           \* the spot_features table
  \* history variables (they record, and never influence, the behaviour)
  runLog,                  \* positions of files_to_process the pipeline entered
  attempts,                \* upsert calls made for the current item
  answer,                  \* how the latest pass of the retry loop ended
  slept,                   \* seconds of each time.sleep of the retry loop
  queried,                 \* a query on audio_files has been executed
  statusLog,               \* status values each request has stored
  lastUpsert,              \* text the last upsert applied at each key stored
                           \* and text it replaced
  classified               \* an ASR result, the clock, and their classification

vars == <<pc, kind, args, request, file_paths, files_to_process, idx,
          final_transcription, data, retry_count, successfully_transcribed,
          error_files, scratch, result, response, status_value, acked,
          published, spot_features, runLog, attempts, answer, slept, queried,
          statusLog, lastUpsert, classified>>

Keys == DeviceIds \X RecordedAts

InitRequests ==
  /\ pc = [p \in Procs |-> "idle"]
  /\ kind = [p \in Procs |-> None]
  /\ args = [p \in Procs |-> NoArgs]
  /\ request = [p \in Procs |-> NoRequest]
  /\ file_paths = [p \in Procs |-> <<>>]
  /\ files_to_process = [p \in Procs |-> <<>>]
  /\ idx = [p \in Procs |-> 0]
  /\ final_transcription = [p \in Procs |-> NoText]
  /\ data = [p \in Procs |-> NoData]
  /\ retry_count = [p \in Procs |-> 0]
  /\ successfully_transcribed = [p \in Procs |-> <<>>]
  /\ error_files = [p \in Procs |-> <<>>]
  /\ scratch = [p \in Procs |-> {}]
  /\ result = [p \in Procs |-> NoResult]
  /\ response = [p \in Procs |-> 0]
  /\ status_value = [p \in Procs |-> None]
  /\ acked = [p \in Procs |-> FALSE]
  /\ published = [p \in Procs |-> <<>>]
  /\ spot_features = {}
  /\ runLog = [p \in Procs |-> <<>>]
  /\ attempts = [p \in Procs |-> 0]
  /\ answer = [p \in Procs |-> None]
  /\ slept = [p \in Procs |-> <<>>]
  /\ queried = [p \in Procs |-> FALSE]
  /\ statusLog = [p \in Procs |-> <<>>]
  /\ lastUpsert = [k \in Keys |-> [text |-> NoText, replaced |-> NoText]]

Init == InitRequests /\ classified = NoClassification

retryVars == <<retry_count, attempts, answer, slept>>
itemVars == <<final_transcription, data, scratch, runLog, retryVars>>
sharedVars == <<acked, published, spot_features, statusLog, lastUpsert,
               classified>>
loopVars == <<idx, successfully_transcribed, error_files>>
callVars == <<kind, args, request, file_paths, files_to_process, queried>>

(***************************************************************************)
(* fetch_and_transcribe_files returns `summary` to its caller.  The batch  *)
(* endpoint answers 200 with it (routes.py:208-209); process_in_background *)
(* goes on to update_status(..., "completed") (routes.py:143-151).         *)
(***************************************************************************)
Return(p, k, summary) ==
  /\ result' = [result EXCEPT ![p] = summary]
  /\ IF k = "batch"
     THEN /\ pc' = [pc EXCEPT ![p] = "done"]
          /\ response' = [response EXCEPT ![p] = 200]
          /\ UNCHANGED status_value
     ELSE /\ pc' = [pc EXCEPT ![p] = "update"]
          /\ status_value' = [status_value EXCEPT ![p] = "completed"]
          /\ UNCHANGED response

\* fetch_and_transcribe_files raises an HTTPException.  The batch endpoint
\* re-raises it (routes.py:210-211); process_in_background catches it as
\* any Exception and takes its failure path (routes.py:167-177).
RaiseHTTP(p, k, code) ==
  /\ UNCHANGED result
  /\ IF k = "batch"
     THEN /\ pc' = [pc EXCEPT ![p] = "done"]
          /\ response' = [response EXCEPT ![p] = code]
          /\ UNCHANGED status_value
     ELSE /\ pc' = [pc EXCEPT ![p] = "update"]
          /\ status_value' = [status_value EXCEPT ![p] = "failed"]
          /\ UNCHANGED response

\* An empty resolution answered with an HTTP error
EmptyResolution_rejects(p, k, total) == RaiseHTTP(p, k, 404)

\* The request resolves to no work item: the function returns at once,
\* services.py:87-103 (ByDevice) and 185, 329-367 (empty files_to_process)
EmptyResolution(p, k, total) == Return(p, k, Summary(total, <<>>, <<>>))

\* A request without a variant taken as a request for no file
\* (services.py:118-133, which no request reaches)
NoVariant_emptySuccess(p, k) == Return(p, k, Summary(0, <<>>, <<>>))

\* Neither device_id + local_date nor file_paths: services.py:111-116
NoVariant(p, k) == RaiseHTTP(p, k, 400)

(***************************************************************************)
(* fetch_and_transcribe_files up to the for loop (services.py:52-183):     *)
(* request shape, catalog queries, work items.  The catalog is read-only,  *)
(* so the queries are taken in one step.  query_raises: the ByDevice query *)
(* raises; failing: the positions of file_paths whose lookup raises.       *)
(***************************************************************************)
ServiceCall(p, k, req, query_raises, failing) ==
  LET audio_files == QueryAudioFiles(req) IN
  /\ request' = [request EXCEPT ![p] = req]
  /\ IF req.device_id # None /\ req.local_date # None
     THEN /\ queried' = [queried EXCEPT ![p] = TRUE]
          /\ IF query_raises
             THEN /\ RaiseHTTP(p, k, 500)
                  /\ UNCHANGED <<file_paths, files_to_process, idx>>
             ELSE IF audio_files = <<>>
             THEN /\ EmptyResolution(p, k, 0)
                  /\ file_paths' = [file_paths EXCEPT ![p] = <<>>]
                  /\ UNCHANGED <<files_to_process, idx>>
             ELSE /\ file_paths' = [file_paths EXCEPT ![p] = PathsOf(audio_files)]
                  /\ files_to_process' = [files_to_process EXCEPT ![p] =
                        [i \in 1..Len(audio_files) |-> WorkItem(audio_files[i])]]
                  /\ idx' = [idx EXCEPT ![p] = 1]
                  /\ pc' = [pc EXCEPT ![p] = "download"]
                  /\ UNCHANGED <<result, response, status_value>>
     ELSE IF req.file_paths # <<>>
     THEN LET items == ResolveFrom(req.file_paths, 1, failing) IN
          /\ queried' = [queried EXCEPT ![p] = TRUE]
          /\ file_paths' = [file_paths EXCEPT ![p] = req.file_paths]
          /\ files_to_process' = [files_to_process EXCEPT ![p] = items]
          /\ idx' = [idx EXCEPT ![p] = 1]
          /\ IF items = <<>>
             THEN EmptyResolution(p, k, Len(req.file_paths))
             ELSE /\ pc' = [pc EXCEPT ![p] = "download"]
                  /\ UNCHANGED <<result, response, status_value>>
     ELSE /\ NoVariant(p, k)
          /\ UNCHANGED <<file_paths, files_to_process, idx, queried>>

(***************************************************************************)
(* Batch endpoint, routes.py:194-214                                       *)
(***************************************************************************)
fetch_and_transcribe(p, req, query_raises, failing) ==
  /\ pc[p] = "idle"
  /\ kind' = [kind EXCEPT ![p] = "batch"]
  /\ IF req.model \notin {"azure", "groq"}
     THEN /\ pc' = [pc EXCEPT ![p] = "done"]
          /\ response' = [response EXCEPT ![p] = 400]
          /\ UNCHANGED <<request, file_paths, files_to_process, idx, result,
                         status_value, queried>>
     ELSE ServiceCall(p, "batch", req, query_raises, failing)
  /\ UNCHANGED <<args, itemVars, successfully_transcribed, error_files, acked,
                 published, spot_features, statusLog, lastUpsert, classified>>

\* async_process that hands the task over, and lets it run, before the
\* status update and the 202
async_process_runsTaskFirst(p, file_path, device_id, recorded_at) ==
  /\ pc[p] = "idle"
  /\ kind' = [kind EXCEPT ![p] = "async"]
  /\ args' = [args EXCEPT ![p] = [file_path |-> file_path,
                                  device_id |-> device_id,
                                  recorded_at |-> recorded_at]]
  /\ pc' = [pc EXCEPT ![p] = "queued"]
  /\ UNCHANGED <<request, file_paths, files_to_process, queried, itemVars, loopVars,
                 result, response, status_value, acked, published,
                 spot_features, statusLog, lastUpsert, classified>>

(***************************************************************************)
(* Async endpoint, routes.py:91-126: the request arrives and               *)
(* update_status(device_id, recorded_at, "vibe_status", "processing") is   *)
(* entered.                                                                *)
(***************************************************************************)
async_process(p, file_path, device_id, recorded_at) ==
  /\ pc[p] = "idle"
  /\ kind' = [kind EXCEPT ![p] = "async"]
  /\ args' = [args EXCEPT ![p] = [file_path |-> file_path,
                                  device_id |-> device_id,
                                  recorded_at |-> recorded_at]]
  /\ status_value' = [status_value EXCEPT ![p] = "processing"]
  /\ pc' = [pc EXCEPT ![p] = "update"]
  /\ UNCHANGED <<request, file_paths, files_to_process, queried, itemVars, loopVars,
                 result, response, acked, published, spot_features,
                 statusLog, lastUpsert, classified>>

(***************************************************************************)
(* update_status, services.py:369-405, as called from routes.py.           *)
(***************************************************************************)
\* update_status returned normally to its caller in routes.py
StatusReturned(p) ==
  IF status_value[p] = "processing"
  THEN /\ acked' = [acked EXCEPT ![p] = TRUE]          \* routes.py:113-126
       /\ pc' = [pc EXCEPT ![p] = "queued"]
       /\ UNCHANGED status_value
  ELSE /\ pc' = [pc EXCEPT ![p] = "publish"]           \* routes.py:154, 182
       /\ UNCHANGED <<acked, status_value>>

\* update_status raised (services.py:403-405)
StatusRaised(p) ==
  IF status_value[p] = "processing"
  THEN /\ acked' = [acked EXCEPT ![p] = TRUE]          \* routes.py:110-126
       /\ pc' = [pc EXCEPT ![p] = "queued"]
       /\ UNCHANGED status_value
  ELSE IF status_value[p] = "completed"
  THEN /\ status_value' = [status_value EXCEPT ![p] = "failed"]  \* routes.py:167-177
       /\ pc' = [pc EXCEPT ![p] = "update"]
       /\ UNCHANGED acked
  ELSE /\ pc' = [pc EXCEPT ![p] = "publish"]           \* routes.py:178-182
       /\ UNCHANGED <<acked, status_value>>

Stored(p) == statusLog' = [statusLog EXCEPT ![p] = Append(@, status_value[p])]

\* services.py:381-390
update_status_update(p, raises) ==
  /\ pc[p] = "update"
  /\ IF raises
     THEN StatusRaised(p) /\ UNCHANGED <<spot_features, statusLog>>
     ELSE IF RowsAt(spot_features, args[p].device_id, args[p].recorded_at) # {}
     THEN /\ spot_features' = Update(spot_features, args[p].device_id,
                                     args[p].recorded_at, status_value[p])
          /\ Stored(p)
          /\ StatusReturned(p)
     ELSE /\ pc' = [pc EXCEPT ![p] = "insert"]
          /\ UNCHANGED <<spot_features, statusLog, acked, status_value>>
  /\ UNCHANGED <<callVars, itemVars, loopVars, result, response, published,
                 lastUpsert, classified>>

\* services.py:391-401; the insert of a key that exists by now is refused
update_status_insert(p, raises) ==
  /\ pc[p] = "insert"
  /\ IF raises \/ RowsAt(spot_features, args[p].device_id, args[p].recorded_at) # {}
     THEN StatusRaised(p) /\ UNCHANGED <<spot_features, statusLog>>
     ELSE /\ spot_features' = Insert(spot_features, args[p].device_id,
                                     args[p].recorded_at, status_value[p])
          /\ Stored(p)
          /\ StatusReturned(p)
  /\ UNCHANGED <<callVars, itemVars, loopVars, result, response, published,
                 lastUpsert, classified>>

(***************************************************************************)
(* process_in_background, routes.py:129-191                                *)
(***************************************************************************)
\* routes.py:135-143: the deferred task starts and calls the service
process_in_background(p, failing) ==
  /\ pc[p] = "queued"
  /\ ServiceCall(p, "async", [device_id |-> None, local_date |-> None,
                     time_blocks |-> <<>>,
                     file_paths |-> <<args[p].file_path>>,
                     model |-> "groq"], FALSE, failing)
  /\ UNCHANGED <<kind, args, itemVars, successfully_transcribed, error_files,
                 acked, published, spot_features, statusLog, lastUpsert, classified>>

Event(p, status) ==
  [device_id |-> args[p].device_id, recorded_at |-> args[p].recorded_at,
   feature_type |-> "vibe", status |-> status]

\* routes.py:154-163 and 182-191: sqs.send_message
send_message(p, raises) ==
  /\ pc[p] = "publish"
  /\ IF ~raises
     THEN /\ published' = [published EXCEPT ![p] = Append(@, Event(p, status_value[p]))]
          /\ pc' = [pc EXCEPT ![p] = "done"]
          /\ UNCHANGED status_value
     ELSE IF status_value[p] = "completed"
     THEN /\ status_value' = [status_value EXCEPT ![p] = "failed"]   \* routes.py:167-177
          /\ pc' = [pc EXCEPT ![p] = "update"]
          /\ UNCHANGED published
     ELSE /\ pc' = [pc EXCEPT ![p] = "crashed"]       \* the exception leaves the task
          /\ UNCHANGED <<published, status_value>>
  /\ UNCHANGED <<callVars, itemVars, loopVars, result, response, acked,
                 spot_features, statusLog, lastUpsert, classified>>

(***************************************************************************)
(* The for loop of fetch_and_transcribe_files, services.py:185-327.        *)
(***************************************************************************)
Item(p) == files_to_process[p][idx[p]]

\* The current item leaves the try block: the temporary file is unlinked
\* (services.py:314-317) and the item is appended to successfully_transcribed
\* (services.py:303-305) or to error_files (services.py:319-327).  The loop
\* goes to the next item, or the result is returned (services.py:329-367).
\* The locals of the loop body are dead from here on and are cleared; so
\* are, when the function returns, retry_count and the history of the
\* retry loop (count, att, ans, sl otherwise).  unlink, append and go_on
\* tell whether the file is unlinked, whether a failed item is appended to
\* error_files, and whether the loop goes on after a failed item.
LeaveItem(p, ok, count, att, ans, sl, unlink, append, go_on) ==
  LET succ == IF ok THEN Append(successfully_transcribed[p],
                                [file_path |-> Item(p).file_path])
                    ELSE successfully_transcribed[p]
      err == IF ok \/ ~append THEN error_files[p]
                              ELSE Append(error_files[p], Item(p))
      last == idx[p] = Len(files_to_process[p]) \/ (~ok /\ ~go_on)
  IN /\ successfully_transcribed' = [successfully_transcribed EXCEPT ![p] = succ]
     /\ error_files' = [error_files EXCEPT ![p] = err]
     /\ scratch' = [scratch EXCEPT ![p] = IF unlink THEN @ \ {idx[p]} ELSE @]
     /\ final_transcription' = [final_transcription EXCEPT ![p] = NoText]
     /\ data' = [data EXCEPT ![p] = NoData]
     /\ idx' = [idx EXCEPT ![p] = @ + 1]
     /\ retry_count' = [retry_count EXCEPT ![p] = IF last THEN 0 ELSE count]
     /\ attempts' = [attempts EXCEPT ![p] = IF last THEN 0 ELSE att]
     /\ answer' = [answer EXCEPT ![p] = IF last THEN None ELSE ans]
     /\ slept' = [slept EXCEPT ![p] = IF last THEN <<>> ELSE sl]
     /\ IF last
        THEN Return(p, kind[p], Summary(Len(file_paths[p]), succ, err))
        ELSE /\ pc' = [pc EXCEPT ![p] = "download"]
             /\ UNCHANGED <<result, response, status_value>>

\* ItemDone that forgets to append a failed item to error_files
ItemDone_dropsError(p, ok, count, att, ans, sl) ==
  LeaveItem(p, ok, count, att, ans, sl, TRUE, FALSE, TRUE)

\* ItemDone whose failed item ends the loop (the except clause outside
\* the for loop)
ItemDone_aborts(p, ok, count, att, ans, sl) ==
  LeaveItem(p, ok, count, att, ans, sl, TRUE, TRUE, FALSE)

\* ItemDone that unlinks the temporary file on the success path only
ItemDone_leaksOnError(p, ok, count, att, ans, sl) ==
  LeaveItem(p, ok, count, att, ans, sl, ok, TRUE, TRUE)

ItemDone(p, ok, count, att, ans, sl) ==
  LeaveItem(p, ok, count, att, ans, sl, TRUE, TRUE, TRUE)

\* The current item goes on to its next call.
Goto(p, next) ==
  /\ pc' = [pc EXCEPT ![p] = next]
  /\ UNCHANGED <<loopVars, result, response, status_value>>

\* services.py:186-197: temporary file, s3_client.download_file.  The
\* history of the previous item's retry loop ends here.
download_file(p, raises) ==
  /\ pc[p] = "download"
  /\ runLog' = [runLog EXCEPT ![p] = Append(@, idx[p])]
  /\ IF raises
     THEN ItemDone(p, FALSE, retry_count[p], 0, None, <<>>)
     ELSE /\ Goto(p, "asr")
          /\ scratch' = [scratch EXCEPT ![p] = @ \cup {idx[p]}]
          /\ attempts' = [attempts EXCEPT ![p] = 0]
          /\ answer' = [answer EXCEPT ![p] = None]
          /\ slept' = [slept EXCEPT ![p] = <<>>]
          /\ UNCHANGED <<final_transcription, data, retry_count>>
  /\ UNCHANGED <<callVars, sharedVars>>

\* services.py:199-226: asr_provider.transcribe_audio and classification
\* (is_quota_exceeded is only logged, services.py:220-223)
transcribe_audio(p, raises, text, no_speech_detected, jst_hour) ==
  /\ pc[p] = "asr"
  /\ IF raises
     THEN ItemDone(p, FALSE, retry_count[p], attempts[p], answer[p], slept[p])
     ELSE /\ final_transcription' = [final_transcription EXCEPT ![p] =
                Classify(text, no_speech_detected, jst_hour).final_transcription]
          /\ Goto(p, "enrich")
          /\ UNCHANGED <<scratch, data, retryVars>>
  /\ UNCHANGED <<callVars, runLog, sharedVars>>

\* services.py:228-260: local_date / local_time from audio_files, the
\* record to store, and the start of the retry loop.  reply: "rows" (the
\* query returns what the table holds), "empty" (it returns no row),
\* "raise".  tolerant: an exception of the query is caught and logged
\* (services.py:246-247).  queried is TRUE already: the item comes from a
\* query.
Enrich(p, reply, tolerant) ==
  /\ pc[p] = "enrich"
  /\ IF reply = "raise" /\ ~tolerant
     THEN ItemDone(p, FALSE, retry_count[p], attempts[p], answer[p], slept[p])
     ELSE /\ LET rows == SelectSeq(AudioFiles,
                   LAMBDA row : /\ row.device_id = Item(p).device_id
                                /\ row.recorded_at = Item(p).recorded_at)
                 found == reply = "rows" /\ rows # <<>>
             IN data' = [data EXCEPT ![p] =
                  [device_id |-> Item(p).device_id,
                   recorded_at |-> Item(p).recorded_at,
                   local_date |-> IF found THEN rows[1].local_date ELSE None,
                   local_time |-> IF found THEN rows[1].local_time ELSE None,
                   vibe_transcriber_result |-> final_transcription[p]]]
          /\ retry_count' = [retry_count EXCEPT ![p] = 0]
          /\ attempts' = [attempts EXCEPT ![p] = 0]
          /\ answer' = [answer EXCEPT ![p] = None]
          /\ slept' = [slept EXCEPT ![p] = <<>>]
          /\ Goto(p, "upsert")
          /\ UNCHANGED <<final_transcription, scratch>>
  /\ UNCHANGED <<callVars, runLog, sharedVars>>

\* enrich whose failing lookup fails the item
enrich_failsOnRaise(p, reply) == Enrich(p, reply, FALSE)

enrich(p, reply) == Enrich(p, reply, TRUE)

\* services.py:297-301 with the test of retry_count against max_retries
\* given as exhausted
ExceptClause(p, count, att, ans, sl, exhausted) ==
  IF exhausted
  THEN ItemDone(p, FALSE, count + 1, att, ans, sl)
  ELSE /\ retry_count' = [retry_count EXCEPT ![p] = count + 1]
       /\ attempts' = [attempts EXCEPT ![p] = att]
       /\ answer' = [answer EXCEPT ![p] = ans]
       /\ slept' = [slept EXCEPT ![p] = sl]
       /\ Goto(p, "upsert")
       /\ UNCHANGED <<scratch, final_transcription, data>>

\* The except clause with > for >=
UpsertExcept_offByOne(p, count, att, ans, sl) ==
  ExceptClause(p, count, att, ans, sl, count + 1 > max_retries)

\* services.py:297-301: the except clause of the retry loop, entered with
\* retry_count = count after att calls of upsert, the last answered by
\* ans, and after the sleeps sl
UpsertExcept(p, count, att, ans, sl) ==
  ExceptClause(p, count, att, ans, sl, count + 1 >= max_retries)

\* The datastore applies the upsert of p's record.
Applied(p) ==
  LET key == <<data[p].device_id, data[p].recorded_at>>
      old == RowsAt(spot_features, key[1], key[2])
  IN /\ spot_features' = Upsert(spot_features, data[p])
     /\ lastUpsert' = [lastUpsert EXCEPT ![key] =
           [text |-> data[p].vibe_transcriber_result,
            replaced |-> IF old = {} THEN NoText
                         ELSE (CHOOSE row \in old : TRUE).vibe_transcriber_result]]

\* time.sleep of one second before every retry
Backoff_constant(count) == IF count > 0 THEN <<1>> ELSE <<>>

\* services.py:264-266: the seconds slept before a pass of the retry loop
\* entered with retry_count = count (none before the first pass)
Backoff(count) == IF count > 0 THEN <<1 * count>> ELSE <<>>

\* services.py:262-276 and 294-301: one pass of the retry loop up to the
\* answer of upsert.  reply: "data" (the stored row is returned),
\* "applied_no_data" and "lost_no_data" (success without a row, the record
\* stored resp. not stored), "raise".
upsert(p, reply) ==
  LET sl == slept[p] \o Backoff(retry_count[p]) IN
  /\ pc[p] = "upsert"
  /\ retry_count[p] < max_retries
  /\ IF reply = "raise"
     THEN /\ UpsertExcept(p, retry_count[p], attempts[p] + 1, "raise", sl)
          /\ UNCHANGED <<spot_features, lastUpsert>>
     ELSE /\ IF reply = "lost_no_data"
             THEN UNCHANGED <<spot_features, lastUpsert>>
             ELSE Applied(p)
          /\ IF reply = "data"
             THEN ItemDone(p, TRUE, retry_count[p], attempts[p] + 1, "data", sl)
             ELSE /\ Goto(p, "check")
                  /\ attempts' = [attempts EXCEPT ![p] = @ + 1]
                  /\ answer' = [answer EXCEPT ![p] = "no_data"]
                  /\ slept' = [slept EXCEPT ![p] = sl]
                  /\ UNCHANGED <<retry_count, scratch, final_transcription, data>>
  /\ UNCHANGED <<callVars, runLog, acked, published, statusLog, classified>>

\* The read-after-write check; found tells what a row at the key means:
\* TRUE ends the loop with success, FALSE leaves upsert_success unset
CheckRow(p, raises, found) ==
  /\ pc[p] = "check"
  /\ IF raises
     THEN UpsertExcept(p, retry_count[p], attempts[p], "raise", slept[p])
     ELSE IF RowsAt(spot_features, data[p].device_id, data[p].recorded_at) # {}
     THEN IF found
          THEN ItemDone(p, TRUE, retry_count[p], attempts[p], "found", slept[p])
          ELSE /\ answer' = [answer EXCEPT ![p] = "found"]
               /\ Goto(p, "upsert")
               /\ UNCHANGED <<retry_count, attempts, slept, scratch,
                              final_transcription, data>>
     ELSE IF retry_count[p] + 1 >= max_retries
     THEN UpsertExcept(p, retry_count[p] + 1, attempts[p], "not_found",
                       slept[p])                 \* services.py:293, 297
     ELSE /\ retry_count' = [retry_count EXCEPT ![p] = @ + 1]
          /\ answer' = [answer EXCEPT ![p] = "not_found"]
          /\ Goto(p, "upsert")
          /\ UNCHANGED <<attempts, slept, scratch, final_transcription, data>>
  /\ UNCHANGED <<callVars, runLog, sharedVars>>

\* check that finds the row and does not set upsert_success
check_retriesWhenFound(p, raises) == CheckRow(p, raises, FALSE)

\* services.py:279-293: read-after-write check of an answer without data
check(p, raises) == CheckRow(p, raises, TRUE)

(***************************************************************************)
(* Specification                                                           *)
(***************************************************************************)
AcceptArgs ==
  {<<"a.wav", "d1", "t1">>, <<"a.wav", "d2", "t1">>, <<"x.wav", "d1", "t1">>}

\* One step of the for loop by request p
Pipeline(p) ==
  \/ \E raises \in BOOLEAN : download_file(p, raises)
  \/ \E raises \in BOOLEAN, text \in Transcriptions,
        no_speech_detected \in BOOLEAN, jst_hour \in JstHours :
       transcribe_audio(p, raises, text, no_speech_detected, jst_hour)
  \/ \E reply \in {"rows", "empty", "raise"} : enrich(p, reply)
  \/ \E reply \in {"data", "applied_no_data", "lost_no_data", "raise"} :
       upsert(p, reply)
  \/ \E raises \in BOOLEAN : check(p, raises)

\* One step of an async request p whose arguments are drawn from A
Async(p, A) ==
  \/ \E a \in A : async_process(p, a[1], a[2], a[3])
  \/ \E raises \in BOOLEAN : update_status_update(p, raises)
  \/ \E raises \in BOOLEAN : update_status_insert(p, raises)
  \/ \E failing \in SUBSET {1} : process_in_background(p, failing)
  \/ \E raises \in BOOLEAN : send_message(p, raises)
  \/ Pipeline(p)

\* One request to the async endpoint
Next == Async("p1", AcceptArgs)

Spec == Init /\ [][Next]_vars

\* The same request when the event loop keeps running the task added at
\* routes.py:113-119 and every awaited call returns or raises
SpecFair == Spec /\ WF_vars(Next)

\* The services of the other features store their own status in the same
\* table (the status_field values named at services.py:376): here one
\* write of behavior_status and emotion_status for the recording d1, t1,
\* on the row that exists or on a new row.
other_feature_status ==
  LET rows == RowsAt(spot_features, "d1", "t1") IN
  /\ \A row \in rows : row.behavior_status = None
  /\ spot_features' =
       IF rows # {}
       THEN (spot_features \ rows) \cup
            {[row EXCEPT !.behavior_status = "completed",
                         !.emotion_status = "processing"] : row \in rows}
       ELSE spot_features \cup
            {[device_id |-> "d1", recorded_at |-> "t1",
              local_date |-> None, local_time |-> None,
              vibe_transcriber_result |-> NoText,
              vibe_status |-> None,
              behavior_status |-> "completed",
              emotion_status |-> "processing"]}
  /\ UNCHANGED <<pc, callVars, itemVars, loopVars, result, response,
                 status_value, acked, published, statusLog, lastUpsert,
                 classified>>

\* One request to the async endpoint next to the other features' writers
NextFeatures == Next \/ other_feature_status

SpecFeatures == Init /\ [][NextFeatures]_vars

\* Concurrent requests to the async endpoint for the same recording
NextConcurrent == \E p \in Procs : Async(p, {<<"a.wav", "d1", "t1">>})

SpecConcurrent == Init /\ [][NextConcurrent]_vars

\* One request to the batch endpoint
NextBatch ==
  \/ \E req \in Requests, query_raises \in BOOLEAN,
        failing \in SUBSET (1..MaxFiles) :
       fetch_and_transcribe("p1", req, query_raises, failing)
  \/ Pipeline("p1")

SpecBatch == Init /\ [][NextBatch]_vars

\* The classification alone, on every ASR result and hour of the day
InitClassify ==
  /\ InitRequests
  /\ \E text \in Transcriptions, no_speech_detected \in BOOLEAN,
        jst_hour \in JstHours :
       classified = [NoClassification EXCEPT
                       !.text = text,
                       !.no_speech_detected = no_speech_detected,
                       !.jst_hour = jst_hour]

classify ==
  /\ ~classified.done
  /\ LET c == Classify(classified.text, classified.no_speech_detected,
                       classified.jst_hour)
     IN classified' = [classified EXCEPT
                         !.final_transcription = c.final_transcription,
                         !.is_quota_exceeded = c.is_quota_exceeded,
                         !.done = TRUE]
  /\ UNCHANGED <<pc, callVars, itemVars, loopVars, result, response,
                 status_value, acked, published, spot_features, statusLog,
                 lastUpsert>>

NextClassify == classify

SpecClassify == InitClassify /\ [][NextClassify]_vars

(***************************************************************************)
(* Properties                                                              *)
(***************************************************************************)
Finished(p) == pc[p] \in {"done", "crashed"}

Last(s) == s[Len(s)]

\* C1: every accepted async item has exactly one TerminalEvent published
\* for it: never more than one, and exactly one once its deferred work has
\* ended, also when status updates fail or a publish attempt raises.
ExactlyOneTerminalEvent ==
  \A p \in Procs :
    kind[p] = "async" =>
      /\ Len(published[p]) <= 1
      /\ Finished(p) => Len(published[p]) = 1

\* C2: the TerminalEvent of an item that entered the pipeline tells the
\* outcome of the pipeline: it is "failed" when the item is among the
\* errors of the deferred run, and it is "completed" only when the item
\* was transcribed and persisted.
TerminalEventMatchesOutcome ==
  \A p \in Procs :
    \A i \in 1..Len(published[p]) :
      runLog[p] # <<>> =>
        /\ result[p].errors > 0 => published[p][i].status = "failed"
        /\ published[p][i].status = "completed" => result[p].pending_processed = 1

\* C3 as stated: a batch that returns a result has processed + errors equal
\* to the number of resolved work items, and the file_path of every
\* resolved work item is in exactly one of processed_files and error_files.
EachRefInExactlyOneList ==
  \A p \in Procs :
    response[p] = 200 =>
      /\ result[p].pending_processed + result[p].errors = Len(files_to_process[p])
      /\ \A i \in 1..Len(files_to_process[p]) :
           (files_to_process[p][i].file_path \in Range(result[p].processed_files))
             # (files_to_process[p][i].file_path \in Range(result[p].error_files))

\* C3 amended: processed + errors equals the number of resolved work
\* items, and every file_path occurs in processed_files and error_files
\* together as often as it occurs among the resolved work items.
BatchAccounting ==
  \A p \in Procs :
    response[p] = 200 =>
      /\ result[p].pending_processed + result[p].errors = Len(files_to_process[p])
      /\ result[p].pending_processed = Len(result[p].processed_files)
      /\ result[p].errors = Len(result[p].error_files)
      /\ \A f \in FilePaths :
           Count(result[p].processed_files, f) + Count(result[p].error_files, f)
             = Count(PathsOf(files_to_process[p]), f)

\* A batch of two resolved items returned one processed and one errored.
BatchAccountingWitness ==
  \E p \in Procs :
    /\ response[p] = 200
    /\ Len(files_to_process[p]) = 2
    /\ result[p].pending_processed = 1
    /\ result[p].errors = 1

\* C4: the loop enters every resolved work item exactly once and in order,
\* whatever happened to the earlier items, and the batch returns its
\* result only when every resolved item is processed or errored.
FailureIsolation ==
  \A p \in Procs :
    /\ runLog[p] = [i \in 1..Len(runLog[p]) |-> i]
    /\ pc[p] \in {"download", "asr", "enrich", "upsert", "check"} =>
         /\ idx[p] \in 1..Len(files_to_process[p])
         /\ Len(runLog[p]) = (IF pc[p] = "download" THEN idx[p] - 1 ELSE idx[p])
         /\ Len(successfully_transcribed[p]) + Len(error_files[p]) = idx[p] - 1
    /\ response[p] = 200 =>
         /\ Len(runLog[p]) = Len(files_to_process[p])
         /\ Len(successfully_transcribed[p]) + Len(error_files[p])
              = Len(files_to_process[p])

\* The first item of a batch failed and the second was processed.
FailureIsolationWitness ==
  \E p \in Procs :
    /\ response[p] = 200
    /\ Len(files_to_process[p]) = 2
    /\ error_files[p] = <<files_to_process[p][1]>>
    /\ Len(successfully_transcribed[p]) = 1

StatusAt(table, device_id, recorded_at) ==
  {row.vibe_status : row \in RowsAt(table, device_id, recorded_at)}

\* C5: once an upsert has been applied at a key, exactly one row exists at
\* that key and it holds the text of the last upsert applied there.
UpsertLastWriteWins ==
  \A k \in Keys :
    lastUpsert[k].text # NoText =>
      /\ Cardinality(RowsAt(spot_features, k[1], k[2])) = 1
      /\ \A row \in RowsAt(spot_features, k[1], k[2]) :
           row.vibe_transcriber_result = lastUpsert[k].text

\* Two concurrent pipelines are in their retry loops, one of them retrying,
\* and the last upsert applied replaced a different text.
UpsertLastWriteWinsWitness ==
  \E p, q \in Procs :
    /\ p # q
    /\ pc[p] \in {"upsert", "check"} /\ attempts[p] >= 1 /\ retry_count[p] >= 1
    /\ pc[q] \in {"upsert", "check"} /\ attempts[q] >= 1
    /\ data[p].device_id = data[q].device_id
    /\ data[p].recorded_at = data[q].recorded_at
    /\ LET k == <<data[p].device_id, data[p].recorded_at>> IN
       /\ lastUpsert[k].replaced # NoText
       /\ lastUpsert[k].replaced # lastUpsert[k].text

\* C6: upsert is called at most max_retries times for a record; when the
\* last of max_retries calls ended in an exception or in an answer without
\* data whose check found no row, the item is appended to error_files and
\* the loop is at the next item.
UpsertAttemptsBounded ==
  \A p \in Procs :
    /\ attempts[p] <= max_retries
    /\ pc[p] = "upsert" => attempts[p] < max_retries /\ attempts[p] = retry_count[p]
    /\ pc[p] = "check" => answer[p] = "no_data" /\ attempts[p] = retry_count[p] + 1
    /\ (attempts[p] = max_retries /\ answer[p] \in {"raise", "not_found"}) =>
         /\ pc[p] = "download"
         /\ retry_count[p] >= max_retries
         /\ error_files[p] # <<>>
         /\ Last(error_files[p]) = files_to_process[p][idx[p] - 1]
         /\ Len(successfully_transcribed[p]) + Len(error_files[p]) = idx[p] - 1

\* The third upsert of an item was answered without data and the check
\* found no row: the loop is at the next item.
UpsertAttemptsBoundedWitness ==
  \E p \in Procs :
    /\ attempts[p] = max_retries
    /\ answer[p] = "not_found"
    /\ pc[p] = "download"
    /\ Len(error_files[p]) = 1

\* C7: when upsert answers without data and the check finds a row at the
\* key, the loop ends at once: no further call of upsert, retry_count
\* unchanged, the item appended to successfully_transcribed and not to
\* error_files.
AmbiguousAckReconciled ==
  \A p \in Procs :
    answer[p] = "found" =>
      /\ pc[p] = "download"
      /\ retry_count[p] = attempts[p] - 1
      /\ successfully_transcribed[p] # <<>>
      /\ Last(successfully_transcribed[p]).file_path
           = files_to_process[p][idx[p] - 1].file_path
      /\ Len(successfully_transcribed[p]) + Len(error_files[p]) = idx[p] - 1

\* The first upsert of the first item was answered without data, the check
\* found a row, and the item is processed.
AmbiguousAckReconciledWitness ==
  \E p \in Procs :
    /\ answer[p] = "found"
    /\ attempts[p] = 1
    /\ Len(successfully_transcribed[p]) = 1
    /\ error_files[p] = <<>>

\* C8: when the pipeline of an accepted item succeeded and the status
\* "completed" could not be stored, the outcome stays: the failure path is
\* not taken, "failed" is not stored and no "failed" event is published.
StatusUpdateBestEffort ==
  \A p \in Procs :
    (result[p].pending_processed = 1 /\ "completed" \notin Range(statusLog[p])) =>
      /\ status_value[p] # "failed"
      /\ "failed" \notin Range(statusLog[p])
      /\ \A i \in 1..Len(published[p]) : published[p][i].status = "completed"

\* p stores the status "processing" in this step
StoresProcessing(p) ==
  /\ statusLog'[p] # statusLog[p]
  /\ Last(statusLog'[p]) = "processing"

\* C9 as stated: when a download (and so an ASR call) of an accepted item
\* has begun, the 202 has been returned and "processing" has been stored.
ProcessingStoredBeforeDownload ==
  \A p \in Procs :
    (kind[p] = "async" /\ (runLog[p] # <<>> \/ scratch[p] # {})) =>
      acked[p] /\ "processing" \in Range(statusLog[p])

\* C9 amended: the 202 is returned before the first download begins, the
\* status "processing" is stored, if it is stored at all, before the 202
\* and before any download, and the 202 is returned with no download made.
AckBeforeDownload ==
  [][\A p \in Procs :
       kind'[p] = "async" =>
         /\ runLog'[p] # runLog[p] => acked[p]
         /\ StoresProcessing(p) => ~acked[p] /\ runLog'[p] = <<>>
         /\ (acked'[p] /\ ~acked[p]) => runLog'[p] = <<>> /\ scratch'[p] = {}
         /\ ~acked'[p] => runLog'[p] = <<>> /\ scratch'[p] = {}]_vars

\* A download has begun for an item whose status was stored as "processing".
AckBeforeDownloadWitness ==
  \E p \in Procs :
    /\ kind[p] = "async"
    /\ acked[p]
    /\ scratch[p] # {}
    /\ statusLog[p] = <<"processing">>

StoredTextIsAsrText ==
  classified.done =>
    /\ classified.text # <<>> =>
         classified.final_transcription = classified.text
    /\ classified.text = <<>> => classified.final_transcription = NoSpeech
    /\ classified.final_transcription # <<>>
    /\ \A no_speech_detected \in BOOLEAN, jst_hour \in JstHours :
         Classify(classified.text, no_speech_detected, jst_hour).final_transcription
           = classified.final_transcription

\* C11 amended: the text to store is the ASR text without its leading and
\* trailing blanks when that is non-empty and the fixed literal otherwise,
\* never the empty text, whatever no_speech_detected and the hour.
StoredTextIsStrippedAsrText ==
  classified.done =>
    /\ Strip(classified.text) # <<>> =>
         classified.final_transcription = Strip(classified.text)
    /\ Strip(classified.text) = <<>> =>
         classified.final_transcription = NoSpeech
    /\ classified.final_transcription # <<>>
    /\ \A no_speech_detected \in BOOLEAN, jst_hour \in JstHours :
         Classify(classified.text, no_speech_detected, jst_hour).final_transcription
           = classified.final_transcription

\* An empty transcription without no_speech_detected before 09:00 JST: the
\* quota warning is raised and the fixed literal is the text to store.
StoredTextWitness ==
  /\ classified.done
  /\ classified.text = <<>>
  /\ ~classified.no_speech_detected
  /\ classified.is_quota_exceeded
  /\ classified.final_transcription = NoSpeech

(***************************************************************************)
(* C12: the temporary file of an item exists only while the item is        *)
(* between its download and the end of its retry loop: it is gone after    *)
(* the item, whether the item succeeded or failed in ASR, enrichment or    *)
(* persistence, and no other item's file exists at any point.  (os.unlink  *)
(* itself is taken to succeed.)                                            *)
(***************************************************************************)
ScratchReleased ==
  \A p \in Procs :
    IF pc[p] \in {"asr", "enrich", "upsert", "check"}
    THEN scratch[p] = {idx[p]}
    ELSE scratch[p] = {}

\* The first item of a batch has failed in persistence after three calls
\* of upsert, the second item is about to start, and no file is left.
ScratchReleasedWitness ==
  /\ pc["p1"] = "download"
  /\ idx["p1"] = 2
  /\ attempts["p1"] = max_retries
  /\ answer["p1"] = "raise"
  /\ Len(error_files["p1"]) = 1
  /\ scratch["p1"] = {}

\* The file_paths of a request that are absent from audio_files
Unresolved(req) ==
  {i \in 1..Len(req.file_paths) : CatalogByPath(req.file_paths[i]) = {}}

ByDevice(req) == req.device_id # None /\ req.local_date # None

ResolvedNothing(p) ==
  /\ kind[p] = "batch"
  /\ pc[p] = "done"
  /\ request[p].model \in {"azure", "groq"}
  /\ ByDevice(request[p]) \/ request[p].file_paths # <<>>
  /\ response[p] # 500
  /\ files_to_process[p] = <<>>

NoWorkDone(p) ==
  /\ runLog[p] = <<>>
  /\ attempts[p] = 0
  /\ scratch[p] = {}
  /\ spot_features = {}

NeitherVariantRejected ==
  \A p \in Procs :
    (kind[p] = "batch" /\ request[p] \in NeitherRequests) =>
      /\ pc[p] = "done"
      /\ response[p] = 400
      /\ result[p] = NoResult
      /\ ~queried[p]
      /\ NoWorkDone(p)
      /\ statusLog[p] = <<>>
      /\ files_to_process[p] = <<>>

\* The service has rejected a request with a supported model and neither
\* variant.
NeitherVariantWitness ==
  /\ kind["p1"] = "batch"
  /\ request["p1"] \in NeitherRequests
  /\ request["p1"].model = "groq"
  /\ response["p1"] = 400
  /\ ~queried["p1"]

\* C16: the statuses that the coordinator stores for one accepted item are
\* processing, if stored, before any other, and then at most one of
\* completed and failed: nothing is stored after completed or failed.
StatusNeverLeavesTerminal ==
  \A p \in Procs :
    kind[p] = "async" =>
      \A i \in 1..Len(statusLog[p]) :
        /\ statusLog[p][i] = "processing" => i = 1
        /\ statusLog[p][i] \in {"completed", "failed"} => i = Len(statusLog[p])

\* C17: once the request is accepted, its deferred work eventually ends
\* and a TerminalEvent is eventually published for it.
AcceptedItemEventuallyPublished ==
  acked["p1"] ~> (Finished("p1") /\ published["p1"] # <<>>)

\* The termination half alone: the deferred work of an accepted request
\* eventually ends, with or without a published event.
AcceptedItemTerminates == acked["p1"] ~> Finished("p1")

\* The retry loop of the previous item has ended without success.
Exhausted(p) ==
  /\ pc[p] = "download"
  /\ answer[p] \in {"raise", "not_found"}

EnrichmentTolerant ==
  [][\A p \in Procs :
       /\ pc[p] = "enrich" =>
            /\ pc'[p] = "upsert"
            /\ error_files'[p] = error_files[p]
            /\ data'[p].vibe_transcriber_result = final_transcription[p]
            /\ data'[p].device_id = Item(p).device_id
            /\ data'[p].recorded_at = Item(p).recorded_at
            /\ \/ data'[p].local_date = None /\ data'[p].local_time = None
               \/ \E i \in 1..Len(AudioFiles) :
                    /\ AudioFiles[i].device_id = Item(p).device_id
                    /\ AudioFiles[i].recorded_at = Item(p).recorded_at
                    /\ data'[p].local_date = AudioFiles[i].local_date
                    /\ data'[p].local_time = AudioFiles[i].local_time
       /\ (/\ pc[p] = "upsert"
           /\ data[p].local_date = None
           /\ spot_features' # spot_features
           /\ pc'[p] # "check") =>
            /\ Len(successfully_transcribed'[p])
                 = Len(successfully_transcribed[p]) + 1
            /\ error_files'[p] = error_files[p]]_vars

\* A batch of one item has returned it as processed, and its stored row
\* carries the text without local_date and local_time.
EnrichmentTolerantWitness ==
  /\ response["p1"] = 200
  /\ result["p1"].processed_files = <<"a.wav">>
  /\ result["p1"].errors = 0
  /\ \E row \in spot_features :
       /\ row.local_date = None
       /\ row.local_time = None
       /\ row.vibe_transcriber_result = <<"h", "i">>

\* C20: at most one row exists for a key, and a call of update_status whose
\* update matched no row and whose insert finds the row created by another
\* writer in between still leaves its status stored on that one row.
SetStatusStoredOnOneRecord ==
  [][\A p \in Procs :
       LET rows == RowsAt(spot_features, args[p].device_id, args[p].recorded_at)
           rows_ == RowsAt(spot_features', args[p].device_id, args[p].recorded_at)
       IN /\ Cardinality(rows_) <= 1
          /\ (pc[p] = "insert" /\ rows # {} /\ pc'[p] # "insert") =>
               \E row \in rows_ : row.vibe_status = status_value[p]]_vars

\* The row of a table at a key, NoRow when the key has no row
NoRow ==
  [device_id |-> None, recorded_at |-> None, local_date |-> None,
   local_time |-> None, vibe_transcriber_result |-> NoText,
   vibe_status |-> None, behavior_status |-> None, emotion_status |-> None]

RowAt(table, k) ==
  IF RowsAt(table, k[1], k[2]) = {} THEN NoRow
  ELSE CHOOSE row \in RowsAt(table, k[1], k[2]) : TRUE

\* C21: a step of the pipeline's upsert leaves vibe_status, behavior_status
\* and emotion_status of the row at its key as they are, and changes no
\* other row; a step of update_status leaves the text, local_date,
\* local_time, behavior_status and emotion_status of the row at its key as
\* they are, and changes no other row.  (A row that does not exist yet
\* counts with every column unset.)
TranscriptAndStatusIndependent ==
  [][\A p \in Procs : \A k \in Keys :
       LET old == RowAt(spot_features, k)
           new == RowAt(spot_features', k)
       IN /\ Cardinality(RowsAt(spot_features', k[1], k[2])) <= 1
          /\ (pc[p] = "upsert" /\ pc'[p] # pc[p]) =>
               /\ new.vibe_status = old.vibe_status
               /\ new.behavior_status = old.behavior_status
               /\ new.emotion_status = old.emotion_status
               /\ k # <<data[p].device_id, data[p].recorded_at>> => new = old
          /\ (pc[p] \in {"update", "insert"} /\ pc'[p] # pc[p]) =>
               /\ new.vibe_transcriber_result = old.vibe_transcriber_result
               /\ new.local_date = old.local_date
               /\ new.local_time = old.local_time
               /\ new.behavior_status = old.behavior_status
               /\ new.emotion_status = old.emotion_status
               /\ k # <<args[p].device_id, args[p].recorded_at>> => new = old
     ]_vars

\* The row of the recording holds the transcript, the completed status of
\* the request and the statuses that the other features stored before the
\* transcript was upserted.
TranscriptAndStatusWitness ==
  /\ pc["p1"] = "done"
  /\ lastUpsert[<<"d1", "t1">>].text = <<"h", "i">>
  /\ lastUpsert[<<"d1", "t1">>].replaced = NoText
  /\ \E row \in spot_features :
       /\ row.vibe_transcriber_result = <<"h", "i">>
       /\ row.vibe_status = "completed"
       /\ row.behavior_status = "completed"
       /\ row.emotion_status = "processing"

\* C22: whenever an item is appended to successfully_transcribed, an upsert
\* of the item's record has been applied at its key: the last upsert
\* applied there stored the item's text.
ProcessedOnlyIfStored ==
  [][\A p \in Procs :
       Len(successfully_transcribed'[p]) > Len(successfully_transcribed[p]) =>
         lastUpsert'[<<data[p].device_id, data[p].recorded_at>>].text
           = data[p].vibe_transcriber_result]_vars

\* The file_path passed to the async endpoint is absent from audio_files,
\* or audio_files has it with another device_id or recorded_at than the
\* ones passed with it.
KeyNotOfFile(p) ==
  \A i \in CatalogByPath(args[p].file_path) :
    \/ AudioFiles[i].device_id # args[p].device_id
    \/ AudioFiles[i].recorded_at # args[p].recorded_at

\* C23: for such a request too, the completed event is published and the
\* completed status is stored at (device_id, recorded_at) only if the row
\* at that key holds a transcript.
CompletedOnlyIfPersisted ==
  \A p \in Procs :
    (/\ kind[p] = "async"
     /\ KeyNotOfFile(p)
     /\ \/ \E i \in 1..Len(published[p]) : published[p][i].status = "completed"
        \/ "completed" \in Range(statusLog[p])) =>
        \E row \in RowsAt(spot_features, args[p].device_id, args[p].recorded_at) :
          row.vibe_transcriber_result # NoText
====
